---- MODULE Spec2Model ----
(***************************************************************************)
(* State-machine model of the book Q&A assistant:                          *)
(*   vector.py  module-level pipeline: load books.jsonl, synthesize the    *)
(*              four document classes, build or load the FAISS store,      *)
(*              create the retriever;                                      *)
(*   main.py    the interactive chat loop over the retriever and the LLM.  *)
(*                                                                         *)
(* Conventions.                                                            *)
(*   - A nullable number (pandas NaN / Python None) is a sequence of       *)
(*     length 0 or 1: None = <<>>, a present value v = <<v>>.              *)
(*   - A string is a sequence of one-character strings; a literal prefix   *)
(*     such as "Author-" is kept as one token.                             *)
(*   - title, image_url and page_content are copied or rendered verbatim   *)
(*     by the code, never raise and are read by no later step; they are    *)
(*     not carried in the model's records.                                 *)
(***************************************************************************)
EXTENDS Integers, Sequences, FiniteSets, TLC

VARIABLES
    books,        \* contents of books.jsonl: sequence of raw records
    db,           \* persisted index at db_location: None or <<index>>
    starts,       \* number of program starts so far
    pc,           \* position of the running process
    error,        \* where the process raised ("" while it has not)
    df,           \* normalized DataFrame rows (vector.py:58)
    df_exploded,  \* one row per (record, author) (vector.py:71-72)
    documents,    \* the module-level documents list (vector.py:68)
    top_books,    \* index labels of df selected by the top-rated pass
    vector_store, \* in-memory index: None or <<index>>
    branch,       \* which build-or-load branch this start took
    question,     \* the line last read by input()
    reviews,      \* documents returned by the retriever for the question
    result,       \* text returned by the chain for the question
    asked,        \* lines read by input() in this process
    trace         \* calls made since (and including) the last input()

vars == <<books, db, starts, pc, error, df, df_exploded, documents, top_books,
          vector_store, branch, question, reviews, result, asked, trace>>

(***************************************************************************)
(* Bounds of the model and constants of the program.                       *)
(***************************************************************************)
MaxRecords == 2
MaxId == 2
MaxStarts == 2
MaxQuestions == 2

TopN == 50
SearchK == 50

(***************************************************************************)
(* Nullable numbers, strings.                                              *)
(***************************************************************************)
None == <<>>
Some(v) == <<v>>
NotNull(o) == o # None

Min(a, b) == IF a <= b THEN a ELSE b

Whitespace == {" ", "\t"}

\* str.lower() on the characters the model's inputs use
LowerChar(c) ==
    CASE c = "Q" -> "q"
      [] c = "H" -> "h"
      [] c = "X" -> "x"
      [] c = "Y" -> "y"
      [] c = "F" -> "f"
      [] OTHER -> c

Lower(s) == [i \in 1..Len(s) |-> LowerChar(s[i])]

RECURSIVE LStrip(_)
LStrip(s) ==
    IF s # <<>> /\ Head(s) \in Whitespace THEN LStrip(Tail(s)) ELSE s

RECURSIVE RStrip(_)
RStrip(s) ==
    IF s # <<>> /\ s[Len(s)] \in Whitespace
    THEN RStrip(SubSeq(s, 1, Len(s) - 1))
    ELSE s

\* str.strip(): leading and trailing whitespace removed
Strip(s) == RStrip(LStrip(s))

\* code-point order of the characters the model's strings use
Alphabet == <<"\t", " ", "F", "H", "Q", "X", "Y", "h", "i", "q">>

Ord(c) == CHOOSE i \in 1..Len(Alphabet) : Alphabet[i] = c

\* s < t in Python's string order
RECURSIVE StrLess(_, _)
StrLess(s, t) ==
    IF t = <<>> THEN FALSE
    ELSE IF s = <<>> THEN TRUE
    ELSE IF Head(s) = Head(t) THEN StrLess(Tail(s), Tail(t))
    ELSE Ord(Head(s)) < Ord(Head(t))

RECURSIVE Concat(_)
Concat(ss) == IF ss = <<>> THEN <<>> ELSE Head(ss) \o Concat(Tail(ss))

SetMax(S) == CHOOSE m \in S : \A x \in S : x <= m

\* the elements of a finite set of integers, largest first / smallest first
RECURSIVE DescSeq(_)
DescSeq(S) ==
    IF S = {} THEN <<>> ELSE <<SetMax(S)>> \o DescSeq(S \ {SetMax(S)})

Reverse(s) == [i \in 1..Len(s) |-> s[Len(s) + 1 - i]]

AscSeq(S) == Reverse(DescSeq(S))

(***************************************************************************)
(* Raw JSON values of a numeric field and pd.to_numeric(errors="coerce").  *)
(***************************************************************************)
Num(n) == [t |-> "num", v |-> n]
Null == [t |-> "null", v |-> 0]
Junk == [t |-> "str", v |-> 0]

to_numeric(raw) == IF raw.t = "num" THEN Some(raw.v) ELSE None

\* variant: rounds to the nearest decade instead of flooring
Decade_Rounded(year) ==
    IF NotNull(year) THEN Some(((year[1] + 5) \div 10) * 10) ELSE None

\* df["decade"] = (df["publication_year"] // 10) * 10
Decade(year) == IF NotNull(year) THEN Some((year[1] \div 10) * 10) ELSE None

\* load_jsonl_to_df: one normalized row per line, in file order
load_jsonl_to_df(file) ==
    [i \in 1..Len(file) |->
        [id |-> file[i].id,
         authors |-> file[i].authors,
         publication_year |-> to_numeric(file[i].publication_year),
         average_rating |-> to_numeric(file[i].average_rating),
         ratings_count |-> to_numeric(file[i].ratings_count),
         decade |-> Decade(to_numeric(file[i].publication_year))]]

(***************************************************************************)
(* The inputs: bounded sets of source files.                               *)
(***************************************************************************)
DefaultRec ==
    [id |-> 1, authors |-> << <<"X">> >>, publication_year |-> Num(1990),
     average_rating |-> Num(4), ratings_count |-> Num(5)]

AuthorLists == { <<>>, << <<" ", "X">>, <<"Y">> >>, << <<"X">>, <<"X", " ">> >> }
RawYears == { Num(2005), Num(-5), Null, Junk }
RawRatingCounts ==
    { [rating |-> Num(3), count |-> Num(5)], [rating |-> Num(4), count |-> Null],
      [rating |-> Null, count |-> Num(5)], [rating |-> Null, count |-> Null] }

RecordChoices ==
    { [DefaultRec EXCEPT !.id = i] : i \in 1..MaxId }
    \cup { [DefaultRec EXCEPT !.authors = a] : a \in AuthorLists }
    \cup { [DefaultRec EXCEPT !.publication_year = y] : y \in RawYears }
    \cup { [DefaultRec EXCEPT !.average_rating = r.rating, !.ratings_count = r.count] :
              r \in RawRatingCounts }

\* n further, well-formed records with ids of their own
Filler(n) ==
    [k \in 1..n |->
        [id |-> 100 + k, authors |-> << <<"F">> >>, publication_year |-> Num(2001),
         average_rating |-> Num(3), ratings_count |-> Num(7)]]

SeqsUpTo(S, n) == UNION { [1..m -> S] : m \in 0..n }

Pads == {0, TopN - 1}

Corpora == { Filler(p) \o base : p \in Pads, base \in SeqsUpTo(RecordChoices, MaxRecords) }

SmallCorpora == { <<>> } \cup { <<r>> : r \in RecordChoices }

\* an index persisted by an earlier run over another source file
StaleIndex ==
    << [id |-> <<"0">>, type |-> "Book",
        metadata |-> [id |-> 0, authors |-> <<>>, year |-> None, decade |-> None,
                      average_rating |-> None, ratings_count |-> None]] >>

(***************************************************************************)
(* Pure parts of document synthesis (vector.py:71-154).                    *)
(***************************************************************************)
\* pandas sort_values(ascending=False) on an integer key: larger keys first,
\* rows with equal keys in their previous order (the order numpy's sort
\* leaves for the frame sizes that fit its insertion-sort cutoff; no
\* property below reads the order inside a tie).
StableDesc(seq, key) ==
    LET idx == [i \in 1..Len(seq) |-> i]
        keys == DescSeq({ key[i] : i \in 1..Len(seq) })
        order == Concat([j \in 1..Len(keys) |-> SelectSeq(idx, LAMBDA i : key[i] = keys[j])])
    IN  [r \in 1..Len(seq) |-> seq[order[r]]]

\* df.explode("authors") then .astype("string").str.strip(): one row per
\* list element, keeping the record's index label; an empty list gives one
\* row whose author is missing.
ExplodeRow(frame, i) ==
    IF frame[i].authors = <<>>
    THEN << [index |-> i, authors |-> None] >>
    ELSE [k \in 1..Len(frame[i].authors) |->
            [index |-> i, authors |-> Some(Strip(frame[i].authors[k]))]]

\* variant: keeps only the first author of every record
Explode_FirstAuthorOnly(frame) ==
    [i \in 1..Len(frame) |-> ExplodeRow(frame, i)[1]]

Explode(frame) == Concat([i \in 1..Len(frame) |-> ExplodeRow(frame, i)])

\* 3.1 one Book document per row
BookDoc(row) ==
    [id |-> <<ToString(row.id)>>,
     type |-> "Book",
     metadata |-> [id |-> row.id,
                   authors |-> row.authors,
                   year |-> IF NotNull(row.publication_year) THEN row.publication_year ELSE None,
                   decade |-> IF NotNull(row.decade) THEN row.decade ELSE None,
                   average_rating |-> IF NotNull(row.average_rating) THEN row.average_rating ELSE None,
                   ratings_count |-> IF NotNull(row.ratings_count) THEN row.ratings_count ELSE None]]

BookDocs(frame) == [i \in 1..Len(frame) |-> BookDoc(frame[i])]

\* a column of a frame
AuthorsColumn(rows) == [i \in 1..Len(rows) |-> rows[i].authors]
DecadeColumn(frame) == [i \in 1..Len(frame) |-> frame[i].decade]

\* groupby(col).size() keys: the distinct non-missing values (dropna=True)
GroupKeys(col) == { col[i][1] : i \in { j \in 1..Len(col) : NotNull(col[j]) } }

GroupSize(col, key) == Cardinality({ i \in 1..Len(col) : col[i] = Some(key) })

\* groupby("authors"): groups in ascending key order
AuthorKeysSorted(rows) ==
    LET K == GroupKeys(AuthorsColumn(rows))
    IN  [r \in 1..Cardinality(K) |->
            CHOOSE k \in K : Cardinality({ j \in K : StrLess(j, k) }) = r - 1]

\* 3.2 books_by_author: (author, Count) sorted by Count descending
books_by_author(rows) ==
    LET keys == AuthorKeysSorted(rows)
        col == AuthorsColumn(rows)
        groups == [r \in 1..Len(keys) |->
                      [authors |-> keys[r], Count |-> GroupSize(col, keys[r])]]
    IN  StableDesc(groups, [r \in 1..Len(groups) |-> groups[r].Count])

AuthorDoc(g) ==
    [id |-> <<"Author-">> \o g.authors,
     type |-> "AuthorAggregate",
     metadata |-> [authors |-> g.authors, Count |-> g.Count]]

AuthorDocs(rows) ==
    LET groups == books_by_author(rows)
    IN  [i \in 1..Len(groups) |-> AuthorDoc(groups[i])]

\* 3.3 books_by_decade: (decade, Count) sorted by decade ascending
books_by_decade(frame) ==
    LET col == DecadeColumn(frame)
        keys == AscSeq(GroupKeys(col))
    IN  [r \in 1..Len(keys) |-> [decade |-> keys[r], Count |-> GroupSize(col, keys[r])]]

DecadeDoc(g) ==
    [id |-> <<"Decade-", ToString(g.decade)>>,
     type |-> "DecadeAggregate",
     metadata |-> [decade |-> g.decade, Count |-> g.Count]]

DecadeDocs(frame) ==
    LET groups == books_by_decade(frame)
    IN  [i \in 1..Len(groups) |-> DecadeDoc(groups[i])]

\* df.sort_values(by="average_rating", ascending=False): index labels, rated
\* rows by rating descending, rows with a missing rating last
SortByRating(frame) ==
    LET idx == [i \in 1..Len(frame) |-> i]
        rated == SelectSeq(idx, LAMBDA i : NotNull(frame[i].average_rating))
        unrated == SelectSeq(idx, LAMBDA i : ~NotNull(frame[i].average_rating))
    IN  StableDesc(rated, [r \in 1..Len(rated) |-> frame[rated[r]].average_rating[1]]) \o unrated

\* 3.4 .head(50)
TopBooks(frame) ==
    SubSeq(SortByRating(frame), 1, Min(TopN, Len(frame)))

\* int(row["ratings_count"]) raises ValueError on NaN
TopRatedRaises(row) == ~NotNull(row.ratings_count)

TopRatedDoc(row) ==
    [id |-> <<"TopRated-", ToString(row.id)>>,
     type |-> "TopRated",
     metadata |-> [authors |-> row.authors,
                   average_rating |-> row.average_rating,
                   ratings_count |-> row.ratings_count]]

\* number of rows of top the loop completes before a row raises
TopRatedDone(frame, top) ==
    LET bad == { k \in 1..Len(top) : TopRatedRaises(frame[top[k]]) }
    IN  IF bad = {} THEN Len(top) ELSE (CHOOSE k \in bad : \A j \in bad : k <= j) - 1

TopRatedDocs(frame, top) ==
    LET done == TopRatedDone(frame, top)
    IN  [k \in 1..done |-> TopRatedDoc(frame[top[k]])]

(***************************************************************************)
(* Start-up of vector.py, one action per module-level step.                *)
(***************************************************************************)
Raise(where) ==
    /\ pc' = "crashed"
    /\ error' = where

\* variant: skips loading and synthesis when an index is already persisted
LoadData_SkipWhenPersisted ==
    /\ pc = "load"
    /\ IF NotNull(db)
       THEN /\ pc' = "store"
            /\ UNCHANGED <<df, error>>
       ELSE \E ok \in BOOLEAN :
              IF ok
              THEN /\ df' = load_jsonl_to_df(books)
                   /\ pc' = "embeddings"
                   /\ UNCHANGED error
              ELSE /\ Raise("load")
                   /\ UNCHANGED df
    /\ UNCHANGED <<books, db, starts, df_exploded, documents, top_books,
                   vector_store, branch, question, reviews, result, asked, trace>>

\* vector.py:58 pd.read_json raises when books.jsonl is absent or malformed
LoadData ==
    /\ pc = "load"
    /\ \E ok \in BOOLEAN :
        IF ok
        THEN /\ df' = load_jsonl_to_df(books)
             /\ pc' = "embeddings"
             /\ UNCHANGED error
        ELSE /\ Raise("load")
             /\ UNCHANGED df
    /\ UNCHANGED <<books, db, starts, df_exploded, documents, top_books,
                   vector_store, branch, question, reviews, result, asked, trace>>

\* vector.py:64-68 the embedding model is resolved; documents = []
InitEmbeddings ==
    /\ pc = "embeddings"
    /\ \E ok \in BOOLEAN :
        IF ok
        THEN /\ pc' = "explode"
             /\ UNCHANGED error
        ELSE Raise("embeddings")
    /\ documents' = <<>>
    /\ UNCHANGED <<books, db, starts, df, df_exploded, top_books,
                   vector_store, branch, question, reviews, result, asked, trace>>

\* vector.py:71-72
ExplodeAuthors ==
    /\ pc = "explode"
    /\ df_exploded' = Explode(df)
    /\ pc' = "book"
    /\ UNCHANGED <<books, db, starts, error, df, documents, top_books,
                   vector_store, branch, question, reviews, result, asked, trace>>

\* vector.py:80-100
BookPass ==
    /\ pc = "book"
    /\ documents' = documents \o BookDocs(df)
    /\ pc' = "author"
    /\ UNCHANGED <<books, db, starts, error, df, df_exploded, top_books,
                   vector_store, branch, question, reviews, result, asked, trace>>

\* vector.py:104-117
AuthorPass ==
    /\ pc = "author"
    /\ documents' = documents \o AuthorDocs(df_exploded)
    /\ pc' = "decade"
    /\ UNCHANGED <<books, db, starts, error, df, df_exploded, top_books,
                   vector_store, branch, question, reviews, result, asked, trace>>

\* vector.py:121-134
DecadePass ==
    /\ pc = "decade"
    /\ documents' = documents \o DecadeDocs(df)
    /\ pc' = "toprated"
    /\ UNCHANGED <<books, db, starts, error, df, df_exploded, top_books,
                   vector_store, branch, question, reviews, result, asked, trace>>

\* vector.py:138-154: the loop appends one document per selected row and
\* stops at the first row whose conversion raises
TopRatedPass ==
    /\ pc = "toprated"
    /\ top_books' = TopBooks(df)
    /\ documents' = documents \o TopRatedDocs(df, top_books')
    /\ IF TopRatedDone(df, top_books') = Len(top_books')
       THEN /\ pc' = "store"
            /\ UNCHANGED error
       ELSE Raise("toprated")
    /\ UNCHANGED <<books, db, starts, df, df_exploded,
                   vector_store, branch, question, reviews, result, asked, trace>>

NextSynth ==
    \/ LoadData
    \/ InitEmbeddings
    \/ ExplodeAuthors
    \/ BookPass
    \/ AuthorPass
    \/ DecadePass
    \/ TopRatedPass

ProcInit ==
    /\ pc = "load"
    /\ error = ""
    /\ df = <<>>
    /\ df_exploded = <<>>
    /\ documents = <<>>
    /\ top_books = <<>>
    /\ vector_store = None
    /\ branch = ""
    /\ question = <<>>
    /\ reviews = <<>>
    /\ result = ""
    /\ asked = 0
    /\ trace = <<>>

\* document synthesis alone, over the larger set of source files
InitSynth ==
    /\ books \in Corpora
    /\ db = None
    /\ starts = 1
    /\ ProcInit

SpecSynth == InitSynth /\ [][NextSynth]_vars

(***************************************************************************)
(* Build or load the vector store, the retriever (vector.py:160-178).      *)
(* An index is modelled by the sequence of documents it was built from.    *)
(***************************************************************************)
\* variant: builds and saves whether or not an index is already persisted
BuildOrLoad_AlwaysBuild ==
    /\ pc = "store"
    /\ \E ok \in BOOLEAN :
        IF ~ok
        THEN /\ Raise("store")
             /\ UNCHANGED <<db, vector_store, branch>>
        ELSE /\ vector_store' = Some(documents)
             /\ db' = Some(documents)
             /\ branch' = "built"
             /\ pc' = "retriever"
             /\ UNCHANGED error
    /\ UNCHANGED <<books, starts, df, df_exploded, documents, top_books,
                   question, reviews, result, asked, trace>>

\* vector.py:160-170.  load_local raises on a corrupt bundle; from_documents
\* raises when the documents cannot be embedded or indexed.
BuildOrLoad ==
    /\ pc = "store"
    /\ \E ok \in BOOLEAN :
        IF ~ok
        THEN /\ Raise("store")
             /\ UNCHANGED <<db, vector_store, branch>>
        ELSE /\ IF NotNull(db)
                THEN /\ vector_store' = db
                     /\ branch' = "loaded"
                     /\ UNCHANGED db
                ELSE /\ vector_store' = Some(documents)
                     /\ db' = Some(documents)
                     /\ branch' = "built"
             /\ pc' = "retriever"
             /\ UNCHANGED error
    /\ UNCHANGED <<books, starts, df, df_exploded, documents, top_books,
                   question, reviews, result, asked, trace>>

\* vector.py:176-178
MakeRetriever ==
    /\ pc = "retriever"
    /\ pc' = "main"
    /\ UNCHANGED <<books, db, starts, error, df, df_exploded, documents, top_books,
                   vector_store, branch, question, reviews, result, asked, trace>>

(***************************************************************************)
(* main.py: the chain and the interactive loop.                            *)
(***************************************************************************)
QuestionLines ==
    { <<"q">>, <<"Q">>, <<" ", "Q", "\t">>, <<"q", "q">>, <<"q", " ", "q">>,
      <<"H", "i">>, <<>> }

Answers == { "yes", "no" }

Event(op, line, docs, text) == [op |-> op, question |-> line, reviews |-> docs, text |-> text]

\* variant: compares the raw line
IsQuitCommand_Raw(line) == line = <<"q">>

\* main.py:60  question.lower().strip() == "q"
IsQuitCommand(line) == Strip(Lower(line)) = <<"q">>

\* retriever.invoke: the k nearest documents of the index, nearest first.
\* Which documents are nearest is the embedding's business; the model lets
\* the result be the first or the last min(k, n) documents, in index order
\* or reversed.
SearchResults(index) ==
    LET n == Len(index)
        m == Min(SearchK, n)
    IN  { SubSeq(index, 1, m), Reverse(SubSeq(index, n - m + 1, n)) }

\* main.py:22-56  model, prompt, chain, banner
InitChain ==
    /\ pc = "main"
    /\ pc' = "input"
    /\ UNCHANGED <<books, db, starts, error, df, df_exploded, documents, top_books,
                   vector_store, branch, question, reviews, result, asked, trace>>

\* main.py:59-62  input() and the quit test; input() raises EOFError at end
\* of input
ReadLine ==
    /\ pc = "input"
    /\ \/ \E line \in QuestionLines :
            /\ asked < MaxQuestions \/ IsQuitCommand(line)
            /\ question' = line
            /\ asked' = asked + 1
            /\ trace' = << Event("input", line, <<>>, "") >>
            /\ pc' = IF IsQuitCommand(line) THEN "exited" ELSE "retrieve"
            /\ UNCHANGED error
       \/ /\ Raise("input")
          /\ UNCHANGED <<question, asked, trace>>
    /\ UNCHANGED <<books, db, starts, df, df_exploded, documents, top_books,
                   vector_store, branch, reviews, result>>

\* main.py:65  reviews = retriever.invoke(question)
Retrieve ==
    /\ pc = "retrieve"
    /\ trace' = Append(trace, Event("retrieve", question, <<>>, ""))
    /\ \/ /\ reviews' \in SearchResults(vector_store[1])
          /\ pc' = "generate"
          /\ UNCHANGED error
       \/ /\ Raise("retrieve")
          /\ UNCHANGED reviews
    /\ UNCHANGED <<books, db, starts, df, df_exploded, documents, top_books,
                   vector_store, branch, question, result, asked>>

\* variant: a failing chain call is swallowed and the loop goes on
Generate_Swallow ==
    /\ pc = "generate"
    /\ trace' = Append(trace, Event("chain", question, reviews, ""))
    /\ \/ /\ result' \in Answers
          /\ pc' = "print"
       \/ /\ pc' = "input"
          /\ UNCHANGED result
    /\ UNCHANGED <<books, db, starts, error, df, df_exploded, documents, top_books,
                   vector_store, branch, question, reviews, asked>>

\* main.py:68  result = chain.invoke({"reviews": reviews, "question": question})
Generate ==
    /\ pc = "generate"
    /\ trace' = Append(trace, Event("chain", question, reviews, ""))
    /\ \/ /\ result' \in Answers
          /\ pc' = "print"
          /\ UNCHANGED error
       \/ /\ Raise("generate")
          /\ UNCHANGED result
    /\ UNCHANGED <<books, db, starts, df, df_exploded, documents, top_books,
                   vector_store, branch, question, reviews, asked>>

\* main.py:71-73
PrintAnswer ==
    /\ pc = "print"
    /\ trace' = Append(trace, Event("print", <<>>, <<>>, result))
    /\ pc' = "input"
    /\ UNCHANGED <<books, db, starts, error, df, df_exploded, documents, top_books,
                   vector_store, branch, question, reviews, result, asked>>

\* the program is started again after it ended; only the files persist
Restart ==
    /\ pc \in {"exited", "crashed"}
    /\ starts < MaxStarts
    /\ starts' = starts + 1
    /\ pc' = "load"
    /\ error' = ""
    /\ df' = <<>>
    /\ df_exploded' = <<>>
    /\ documents' = <<>>
    /\ top_books' = <<>>
    /\ vector_store' = None
    /\ branch' = ""
    /\ question' = <<>>
    /\ reviews' = <<>>
    /\ result' = ""
    /\ asked' = 0
    /\ trace' = <<>>
    /\ UNCHANGED <<books, db>>

Init ==
    /\ books \in SmallCorpora
    /\ db \in {None, Some(StaleIndex)}
    /\ starts = 1
    /\ ProcInit

Next ==
    \/ LoadData
    \/ InitEmbeddings
    \/ ExplodeAuthors
    \/ BookPass
    \/ AuthorPass
    \/ DecadePass
    \/ TopRatedPass
    \/ BuildOrLoad
    \/ MakeRetriever
    \/ InitChain
    \/ ReadLine
    \/ Retrieve
    \/ Generate
    \/ PrintAnswer
    \/ Restart

Spec == Init /\ [][Next]_vars

(***************************************************************************)
(* Vocabulary of the properties.                                           *)
(***************************************************************************)
DocsOfType(t) == SelectSeq(documents, LAMBDA d : d.type = t)

RECURSIVE SumCount(_)
SumCount(docs) ==
    IF docs = <<>> THEN 0 ELSE Head(docs).metadata.Count + SumCount(Tail(docs))

RECURSIVE SumAuthors(_)
SumAuthors(file) ==
    IF file = <<>> THEN 0 ELSE Len(Head(file).authors) + SumAuthors(Tail(file))

\* a >= b as Python evaluates it on floats: false when either side is NaN
RatingGE(a, b) == NotNull(a) /\ NotNull(b) /\ a[1] >= b[1]

HasYear(rec) == rec.publication_year.t = "num"
HasRating(rec) == rec.average_rating.t = "num"
HasCount(rec) == rec.ratings_count.t = "num"

SynthesisPcs == {"explode", "book", "author", "decade", "toprated"}
AfterAuthorPass == pc \in {"decade", "toprated", "store"} \/ (pc = "crashed" /\ error = "toprated")
AfterDecadePass == pc \in {"toprated", "store"} \/ (pc = "crashed" /\ error = "toprated")
ChatPcs == {"input", "retrieve", "generate", "print", "exited"}
InChat == pc \in ChatPcs \/ (pc = "crashed" /\ error \in {"input", "retrieve", "generate"})

(***************************************************************************)
(* C1.  Whichever numeric fields are missing on whichever records, the     *)
(* four synthesis passes complete without raising, and a missing field of  *)
(* a record is None in the metadata of the documents emitted for it.       *)
(* Stated as the claim reads; the top-rated pass raises on a selected row  *)
(* whose ratings_count is missing.                                         *)
(***************************************************************************)
C1_SynthesisNeverRaises ==
    /\ ~(pc = "crashed" /\ error \in SynthesisPcs)
    /\ pc = "store" =>
          \A i \in 1..Len(books) :
              /\ ~HasYear(books[i]) => documents[i].metadata.year = None
              /\ ~HasRating(books[i]) => documents[i].metadata.average_rating = None
              /\ ~HasCount(books[i]) => documents[i].metadata.ratings_count = None

(***************************************************************************)
(* C2.  No two documents of the synthesized sequence share an identifier,  *)
(* for every source file.  Stated as the claim reads; two lines of the     *)
(* file with the same id give two Book documents with the same identifier. *)
(***************************************************************************)
C2_IdentifiersUnique ==
    \A i, j \in 1..Len(documents) :
        i # j => documents[i].id # documents[j].id

(***************************************************************************)
(* C3.  When the top-rated pass has completed: at most 50 TopRated         *)
(* documents, ratings non-increasing in emission order, and every returned *)
(* rating >= the rating of every record not returned.  Stated as the claim *)
(* reads; rows with a missing rating are selected too (see C8) and compare *)
(* false against every rating.                                             *)
(***************************************************************************)
C3_TopRatedOrdered ==
    pc = "store" =>
        LET top == DocsOfType("TopRated")
            rest == { i \in 1..Len(df) : \A k \in 1..Len(top_books) : top_books[k] # i }
        IN  /\ Len(top) <= 50
            /\ \A k \in 1..(Len(top) - 1) :
                  RatingGE(top[k].metadata.average_rating, top[k + 1].metadata.average_rating)
            /\ \A k \in 1..Len(top) : \A i \in rest :
                  RatingGE(top[k].metadata.average_rating, df[i].average_rating)

(***************************************************************************)
(* C8.  The number of TopRated documents is min(50, number of records with *)
(* a rating).  Stated as the claim reads; head(50) of the sorted frame     *)
(* keeps the rows with a missing rating, which sort last.                  *)
(***************************************************************************)
C8_TopRatedOnlyRated ==
    pc = "store" =>
        Len(DocsOfType("TopRated"))
            = Min(50, Cardinality({ i \in 1..Len(books) : HasRating(books[i]) }))

(***************************************************************************)
(* C6.  Original statement: the AuthorAggregate counts sum to the number   *)
(* of rows of the exploded frame, also when an author list is empty.       *)
(***************************************************************************)
C6_Original ==
    AfterAuthorPass => SumCount(DocsOfType("AuthorAggregate")) = Len(df_exploded)

(***************************************************************************)
(* C6, amended.  The AuthorAggregate counts sum to the number of exploded  *)
(* rows that carry an author, which is the sum over the records of the     *)
(* lengths of their author lists; the one row an empty author list         *)
(* explodes to carries no author and is counted by no AuthorAggregate.     *)
(***************************************************************************)
C6_AuthorCountsSum ==
    AfterAuthorPass =>
        /\ SumCount(DocsOfType("AuthorAggregate"))
              = Cardinality({ i \in 1..Len(df_exploded) : NotNull(df_exploded[i].authors) })
        /\ SumCount(DocsOfType("AuthorAggregate")) = SumAuthors(books)
        /\ Len(df_exploded)
              = SumAuthors(books) + Cardinality({ i \in 1..Len(books) : books[i].authors = <<>> })

C6_Witness ==
    /\ AfterAuthorPass
    /\ \E i \in 1..Len(books) : books[i].authors = <<>>
    /\ \E i \in 1..Len(books) : books[i].authors = << <<"X">>, <<"X", " ">> >>
    /\ \E k \in 1..Len(documents) :
          /\ documents[k].id = <<"Author-", "X">>
          /\ documents[k].metadata.Count = 2
    /\ SumCount(DocsOfType("AuthorAggregate")) < Len(df_exploded)

(***************************************************************************)
(* C7.  The DecadeAggregate counts sum to the number of records whose      *)
(* publication year is present; each such record is counted in the one     *)
(* decade floor(year/10)*10; a record with a missing year in none.         *)
(***************************************************************************)
C7_DecadeCountsPartition ==
    AfterDecadePass =>
        LET dec == DocsOfType("DecadeAggregate")
            dated == { i \in 1..Len(books) : HasYear(books[i]) }
            FloorDecade(y) == y - (y % 10)
            members(d) == { i \in dated : FloorDecade(books[i].publication_year.v) = d }
        IN  /\ SumCount(dec) = Cardinality(dated)
            /\ \A k \in 1..Len(dec) :
                  /\ dec[k].metadata.Count = Cardinality(members(dec[k].metadata.decade))
                  /\ dec[k].metadata.Count > 0
            /\ \A i \in dated : \E k \in 1..Len(dec) :
                  dec[k].metadata.decade = FloorDecade(books[i].publication_year.v)
            /\ \A k, l \in 1..Len(dec) :
                  k # l => dec[k].metadata.decade # dec[l].metadata.decade

C7_Witness ==
    /\ AfterDecadePass
    /\ \E i \in 1..Len(books) : ~HasYear(books[i])
    /\ \E i \in 1..Len(books) : HasYear(books[i]) /\ books[i].publication_year.v = 2005
    /\ \E k \in 1..Len(documents) :
          /\ documents[k].id = <<"Decade-", "2000">>
          /\ documents[k].metadata.Count = 50
    /\ SumCount(DocsOfType("DecadeAggregate")) = Len(books) - 1

(***************************************************************************)
(* C4.  Across program starts and questions: where a persisted index       *)
(* exists it is loaded, the synthesized documents are ignored and nothing  *)
(* is written; where none exists the index is built from every             *)
(* synthesized document and persisted before the retriever is used; no     *)
(* question rebuilds or rewrites the index.                                *)
(***************************************************************************)
C4_BuildOnceThenLoad ==
    [][ /\ db' # db =>
              /\ pc = "store" /\ db = None
              /\ db' = Some(documents) /\ vector_store' = db'
        /\ (pc = "store" /\ NotNull(db)) =>
              /\ db' = db
              /\ pc' # "crashed" => (vector_store' = db /\ branch' = "loaded")
        /\ (pc = "store" /\ db = None /\ pc' # "crashed") =>
              /\ db' = Some(documents) /\ vector_store' = db' /\ branch' = "built"
        /\ pc' \in {"retriever", "main"} \cup ChatPcs =>
              /\ NotNull(db') /\ vector_store' = db'
        /\ InChat => (starts' = starts => UNCHANGED <<db, vector_store, documents>>)
      ]_vars

C4_Witness ==
    /\ starts = 2
    /\ branch = "loaded"
    /\ pc = "print"
    /\ vector_store = Some(StaleIndex)
    /\ db = vector_store
    /\ documents # <<>>
    /\ documents # StaleIndex

(***************************************************************************)
(* C5.  In the interactive loop a line that is "q" once lowercased and     *)
(* stripped ends the loop normally with no retrieval and no model call;    *)
(* any other line is passed raw to the retriever exactly once, then with   *)
(* the retrieved documents to the chain exactly once, then the result is   *)
(* printed, and only then is the next line read.                           *)
(***************************************************************************)
QuitLines == { <<"q">>, <<"Q">>, <<" ", "Q", "\t">> }

C5_Iteration ==
    LET in == Event("input", question, <<>>, "")
        re == Event("retrieve", question, <<>>, "")
        ch == Event("chain", question, reviews, "")
        pr == Event("print", <<>>, <<>>, result)
    IN  /\ pc = "exited" => question \in QuitLines /\ trace = <<in>> /\ error = ""
        /\ pc = "retrieve" => question \notin QuitLines /\ trace = <<in>>
        /\ pc = "generate" => trace = <<in, re>>
        /\ pc = "print" => trace = <<in, re, ch>>
        /\ (pc = "input" /\ asked > 0) => trace = <<in, re, ch, pr>>

C5_LoopProtocol ==
    [][ /\ C5_Iteration'
        /\ (asked' # asked /\ starts' = starts) =>
              /\ pc = "input"
              /\ asked = 0 \/ Len(trace) = 4
              /\ asked' = asked + 1
              /\ pc' = IF question' \in QuitLines THEN "exited" ELSE "retrieve"
      ]_vars

C5_Witness ==
    /\ pc = "exited"
    /\ asked = 2
    /\ question = <<" ", "Q", "\t">>
    /\ trace = << Event("input", question, <<>>, "") >>
    /\ result \in Answers

(***************************************************************************)
(* C9.  A failure of retrieval or generation during a question ends the    *)
(* process: the failed call is not made again, no answer is printed for    *)
(* that question and no further line is read.                              *)
(***************************************************************************)
CallsOf(op) == Len(SelectSeq(trace, LAMBDA e : e.op = op))

C9_FailurePropagates ==
    [][ /\ pc = "retrieve" =>
              \/ pc' = "generate" /\ error' = ""
              \/ /\ pc' = "crashed" /\ error' = "retrieve"
                 /\ asked' = asked /\ result' = result
                 /\ CallsOf("retrieve")' = 1 /\ CallsOf("chain")' = 0 /\ CallsOf("print")' = 0
        /\ pc = "generate" =>
              \/ pc' = "print" /\ error' = ""
              \/ /\ pc' = "crashed" /\ error' = "generate"
                 /\ asked' = asked /\ result' = result
                 /\ CallsOf("retrieve")' = 1 /\ CallsOf("chain")' = 1 /\ CallsOf("print")' = 0
        /\ pc = "crashed" =>
              /\ starts' = starts + 1 /\ pc' = "load" /\ asked' = 0 /\ trace' = <<>>
      ]_vars

C9_Witness ==
    /\ pc = "crashed"
    /\ error = "generate"
    /\ asked = 2
    /\ CallsOf("chain") = 1
    /\ CallsOf("print") = 0

(***************************************************************************)
(* C10.  On every start the source file is loaded and all four passes run  *)
(* before the persisted index is looked for, also when it will be loaded:  *)
(* a load or synthesis failure aborts the start before the load branch,    *)
(* even with a persisted index in place, and no question is read.          *)
(***************************************************************************)
SynthesisComplete ==
    /\ Len(df) = Len(books)
    /\ Len(DocsOfType("Book")) = Len(books)
    /\ Len(top_books) = Min(50, Len(books))
    /\ Len(DocsOfType("TopRated")) = Len(top_books)
    /\ (DocsOfType("AuthorAggregate") # <<>>) = (SumAuthors(books) > 0)
    /\ (DocsOfType("DecadeAggregate") # <<>>) = (\E i \in 1..Len(books) : HasYear(books[i]))

C10_SynthesisBeforeIndexCheck ==
    /\ (pc = "store" \/ branch # "" \/ NotNull(vector_store)) => SynthesisComplete
    /\ pc \in {"load", "embeddings"} \cup SynthesisPcs =>
          vector_store = None /\ branch = "" /\ asked = 0
    /\ (pc = "crashed" /\ error \in {"load", "embeddings"} \cup SynthesisPcs) =>
          vector_store = None /\ branch = "" /\ asked = 0 /\ trace = <<>>

C10_Witness ==
    /\ pc = "crashed"
    /\ error = "toprated"
    /\ db = Some(StaleIndex)
    /\ vector_store = None
    /\ branch = ""
    /\ Len(DocsOfType("Book")) = 1

====
